---- MODULE Spec2Model ----
(***************************************************************************)
(* The project-manifest editing scripts of joylabs-catalogue-app:          *)
(*   src/add_history_view.py            add_history_view_to_xcode          *)
(*   src/add_files_to_xcode.py          add_files_to_xcode_project         *)
(*   src/JoyLabsNative/fix_xcode_project.py   fix_xcode_project            *)
(*                                                                         *)
(* The scripts edit the text of project.pbxproj with str.find, slicing and *)
(* re.sub.  The manifest text is modelled as the sequence of its lexical   *)
(* units (tokens); white space between units is not represented.  Every    *)
(* literal and pattern of the scripts begins and ends on unit boundaries,  *)
(* except where a removal pattern matches inside a build-file node that    *)
(* the node pattern did not match: that case is modelled by the node       *)
(* losing its key and its fileRef.                                         *)
(*                                                                         *)
(* All three scripts are run against the same manifest (each from the      *)
(* working directory its relative project_file path is written for).       *)
(***************************************************************************)
EXTENDS Integers, Sequences, FiniteSets, TLC

VARIABLES disk, last, prev, runs, completed

vars == <<disk, last, prev, runs, completed>>

-----------------------------------------------------------------------------
(* Bounds of the model *)

\* number of script runs in one behaviour
MaxRuns == 2

\* number of ways a starting manifest departs from the canonical layout
MaxDrift == 2

-----------------------------------------------------------------------------
(* Keys: 24 upper-case hexadecimal characters.  A key in the manifest text *)
(* is a string; NoKey is the empty text left where a key was removed.      *)

NoKey == ""

\* [A-F0-9]{24}: every key of the manifests modelled has this form, so the
\* pattern fails only where the key is gone
IsKey(k) == k # NoKey

\* the literals of add_history_view.py
file_uuid == "A1B2C3D4E5F6789012345855"

build_uuid == "A1B2C3D4E5F6789012345856"

file_name == "HistoryView.swift"

main_group_key == "A1B2C3D4E5F6789012345689"

main_group_name == "JoyLabsNative"

scanview_key == "A1B2C3D4E5F6789012345854"

scanview_source_key == "A1B2C3D4E5F6789012345853"

scanview_name == "ScanView.swift"

-----------------------------------------------------------------------------
(* Tokens: the lexical units of the manifest text                          *)
(*   Begin/End   a section marker comment, name = the section's isa        *)
(*   FileRef     KEY /* name */ = {isa = PBXFileReference; ... };          *)
(*   BuildFile   KEY /* name in Sources */ = {isa = PBXBuildFile;          *)
(*                 fileRef = REF /* name */; [settings = {...}; ]};        *)
(*   Group       KEY /* name */ = { isa = PBXGroup;                        *)
(*   Phase       KEY /* name */ = { isa = PBXSourcesBuildPhase;            *)
(*   ChildrenOpen  children = (         FilesOpen   files = (              *)
(*   Child       KEY /* name */ and its comma, if any                      *)
(*   Source      KEY /* name in Sources */ and its comma, if any           *)
(*   Close       );                     EndObj      ... };                 *)

Tok(t, key, name, ref, shape, comma) ==
  [t |-> t, key |-> key, name |-> name, ref |-> ref, shape |-> shape, comma |-> comma]

Begin(section) == Tok("Begin", NoKey, section, NoKey, "", FALSE)

End(section) == Tok("End", NoKey, section, NoKey, "", FALSE)

FileRef(key, name) == Tok("FileRef", key, name, NoKey, "", FALSE)

BuildFile(key, name, ref, shape) == Tok("BuildFile", key, name, ref, shape, FALSE)

Group(key, name) == Tok("Group", key, name, NoKey, "", FALSE)

Phase(key, name) == Tok("Phase", key, name, NoKey, "", FALSE)

ChildrenOpen == Tok("ChildrenOpen", NoKey, "", NoKey, "", FALSE)

FilesOpen == Tok("FilesOpen", NoKey, "", NoKey, "", FALSE)

Child(key, name, comma) == Tok("Child", key, name, NoKey, "", comma)

Source(key, name, comma) == Tok("Source", key, name, NoKey, "", comma)

Close == Tok("Close", NoKey, "", NoKey, "", FALSE)

EndObj == Tok("EndObj", NoKey, "", NoKey, "", FALSE)

-----------------------------------------------------------------------------
(* Text primitives on token sequences *)

\* content[:i] + ins + content[i:], i the (1-based) index of the unit the
\* insertion point stands before
InsertBefore(c, i, ins) == SubSeq(c, 1, i - 1) \o ins \o SubSeq(c, i, Len(c))

\* str.find(pattern, start), given the indices of the units the pattern
\* matches: the first of them >= start; 0 stands for Python's -1.  A start
\* of -1 (a failed earlier find) searches the last character only, where no
\* pattern of the scripts fits.
Find(hits, start) ==
  IF start = 0 THEN 0
  ELSE LET later == {i \in hits : i >= start}
       IN  IF later = {} THEN 0 ELSE CHOOSE i \in later : \A j \in later : i <= j

\* '/* <name> */ = {'
IsHead(tok, name) == tok.t \in {"Group", "Phase", "FileRef"} /\ tok.name = name

\* '<key> /* <name> */ = {'
IsKeyedHead(tok, key, name) == IsHead(tok, name) /\ tok.key = key

\* '<key> /* <name> */,'
IsChildWithComma(tok, key, name) ==
  tok.t = "Child" /\ tok.key = key /\ tok.name = name /\ tok.comma

\* '<key> /* <name> in Sources */,'
IsSourceWithComma(tok, key, name) ==
  tok.t = "Source" /\ tok.key = key /\ tok.name = name /\ tok.comma

IsMarker(tok, t, section) == tok.t = t /\ tok.name = section

IsTok(tok, t) == tok.t = t

-----------------------------------------------------------------------------
(* fix_xcode_project: the four substitutions of one file name *)

\* KEY /* f in Sources */ = {isa = PBXBuildFile; fileRef = KEY /* f */; };?\n?
RemoveBuildFileNodes(c, f) ==
  SelectSeq(c, LAMBDA tok :
    ~(tok.t = "BuildFile" /\ tok.shape = "plain" /\ tok.name = f
        /\ IsKey(tok.key) /\ IsKey(tok.ref)))

\* KEY /* f */ = {isa = PBXFileReference; [^}]+};?\n?
RemoveFileRefNodes(c, f) ==
  SelectSeq(c, LAMBDA tok :
    ~(tok.t = "FileRef" /\ tok.name = f /\ IsKey(tok.key)))

\* KEY /* f */,?\n?\s*   anywhere in the text: the entries of children
\* lists, with their comma, and the fileRef of a build-file node that is
\* still in the text
RemoveChildEntries(c, f) ==
  LET kept == SelectSeq(c, LAMBDA tok :
                ~(tok.t = "Child" /\ tok.name = f /\ IsKey(tok.key)))
  IN  [i \in 1..Len(kept) |->
        IF kept[i].t = "BuildFile" /\ kept[i].name = f /\ IsKey(kept[i].ref)
        THEN [kept[i] EXCEPT !.ref = NoKey]
        ELSE kept[i]]

\* KEY /* f in Sources */,?\n?\s*   anywhere in the text: the entries of
\* files lists, with their comma, and the key and label of a build-file node
\* that is still in the text
RemoveSourceEntries(c, f) ==
  LET kept == SelectSeq(c, LAMBDA tok :
                ~(tok.t = "Source" /\ tok.name = f /\ IsKey(tok.key)))
  IN  [i \in 1..Len(kept) |->
        IF kept[i].t = "BuildFile" /\ kept[i].name = f /\ IsKey(kept[i].key)
        THEN [kept[i] EXCEPT !.key = NoKey, !.name = ""]
        ELSE kept[i]]

\* the loop body without its last substitution
RemoveFile_NoSourcesPass(c, f) ==
  RemoveChildEntries(
    RemoveFileRefNodes(
      RemoveBuildFileNodes(c, f), f), f)

\* the body of the loop over files_to_remove
RemoveFile(c, f) ==
  RemoveSourceEntries(
    RemoveChildEntries(
      RemoveFileRefNodes(
        RemoveBuildFileNodes(c, f), f), f), f)

RECURSIVE RemoveAll(_, _)
RemoveAll(c, files) ==
  IF files = <<>> THEN c
  ELSE RemoveAll(RemoveFile(c, Head(files)), Tail(files))

\* re.sub(r',(\s*\);)', r'\1', content)
CleanTrailingCommas(c) ==
  [i \in 1..Len(c) |->
    IF c[i].comma /\ i < Len(c) /\ c[i + 1].t = "Close"
    THEN [c[i] EXCEPT !.comma = FALSE]
    ELSE c[i]]

-----------------------------------------------------------------------------
(* The manifest on disk and the record of a run *)

NoFile == [exists |-> FALSE, content |-> <<>>]

File(c) == [exists |-> TRUE, content |-> c]

\* what a run did: the script, its list of files, what the call returned
\* ("True", "False", "None", or "raised" for an uncaught exception), whether
\* it reached its write of the manifest, and the manifest before the run
Run(op, files, result, wrote, before) ==
  [op |-> op, files |-> files, result |-> result, wrote |-> wrote, before |-> before]

NoRun == Run("none", <<>>, "None", FALSE, NoFile)

-----------------------------------------------------------------------------
(* add_history_view_to_xcode *)

history_file_ref == FileRef(file_uuid, file_name)

history_build_ref == BuildFile(build_uuid, file_name, file_uuid, "plain")

\* lines 48-54: the child entry, after the ScanView.swift entry
AddChildEntry(c, children_start) ==
  LET scanview_pos ==
        Find({i \in DOMAIN c : IsChildWithComma(c[i], scanview_key, scanview_name)},
             children_start)
  IN  IF scanview_pos # 0
      THEN InsertBefore(c, scanview_pos + 1, <<Child(file_uuid, file_name, TRUE)>>)
      ELSE c

\* lines 56-59: the file-reference node, before the section's end marker
AddFileRefNode(c) ==
  LET pbx_file_ref_end ==
        Find({i \in DOMAIN c : IsMarker(c[i], "End", "PBXFileReference")}, 1)
  IN  IF pbx_file_ref_end # 0
      THEN InsertBefore(c, pbx_file_ref_end, <<history_file_ref>>)
      ELSE c

\* lines 61-64: the build-file node, before the section's end marker
AddBuildFileNode(c) ==
  LET pbx_build_file_end ==
        Find({i \in DOMAIN c : IsMarker(c[i], "End", "PBXBuildFile")}, 1)
  IN  IF pbx_build_file_end # 0
      THEN InsertBefore(c, pbx_build_file_end, <<history_build_ref>>)
      ELSE c

\* lines 66-78: the Sources entry, after the ScanView.swift entry
AddSourceEntry(c) ==
  LET sources_build_phase == Find({i \in DOMAIN c : IsHead(c[i], "Sources")}, 1)
      files_start == Find({i \in DOMAIN c : IsTok(c[i], "FilesOpen")},
                          sources_build_phase)
      files_end == Find({i \in DOMAIN c : IsTok(c[i], "Close")}, files_start)
      scanview_source_pos ==
        Find({i \in DOMAIN c : IsSourceWithComma(c[i], scanview_source_key, scanview_name)},
             files_start)
  IN  IF sources_build_phase # 0 /\ files_start # 0 /\ files_end # 0
         /\ scanview_source_pos # 0
      THEN InsertBefore(c, scanview_source_pos + 1,
                        <<Source(build_uuid, file_name, TRUE)>>)
      ELSE c

\* the whole call: [result, wrote, content]
add_history_view_to_xcode(d) ==
  IF ~d.exists
  THEN [result |-> "False", wrote |-> FALSE, content |-> d.content]
  ELSE
    LET content == d.content
        main_group_start ==
          Find({i \in DOMAIN content : IsKeyedHead(content[i], main_group_key, main_group_name)},
               1)
        children_start ==
          Find({i \in DOMAIN content : IsTok(content[i], "ChildrenOpen")},
               main_group_start)
        children_end ==
          Find({i \in DOMAIN content : IsTok(content[i], "Close")}, children_start)
    IN  IF main_group_start = 0
        THEN [result |-> "False", wrote |-> FALSE, content |-> content]
        ELSE IF children_start = 0 \/ children_end = 0
        THEN [result |-> "False", wrote |-> FALSE, content |-> content]
        ELSE [result |-> "True", wrote |-> TRUE,
              content |->
                AddSourceEntry(
                  AddBuildFileNode(
                    AddFileRefNode(
                      AddChildEntry(content, children_start))))]

-----------------------------------------------------------------------------
(* fix_xcode_project *)

\* the call with the cleanup ahead of the removals
fix_xcode_project_CleanFirst(d, files_to_remove) ==
  IF ~d.exists
  THEN [result |-> "raised", wrote |-> FALSE, content |-> d.content]
  ELSE [result |-> "None", wrote |-> TRUE,
        content |-> RemoveAll(CleanTrailingCommas(d.content), files_to_remove)]

\* the whole call: open() raises when the manifest is missing
fix_xcode_project(d, files_to_remove) ==
  IF ~d.exists
  THEN [result |-> "raised", wrote |-> FALSE, content |-> d.content]
  ELSE [result |-> "None", wrote |-> TRUE,
        content |-> CleanTrailingCommas(RemoveAll(d.content, files_to_remove))]

-----------------------------------------------------------------------------
(* add_files_to_xcode_project *)

\* a path as the sequence of its components
files_to_add ==
  << <<"JoyLabsNative", "Core", "Database", "CatalogTableDefinitions.swift">>,
     <<"JoyLabsNative", "Core", "Database", "CatalogTableCreator.swift">>,
     <<"JoyLabsNative", "Core", "Database", "CatalogObjectInserters.swift">> >>

\* os.path.basename
basename(path) == path[Len(path)]

\* str(uuid): the 32 hexadecimal digits in groups of 8-4-4-4-12
Str(u) ==
  SubSeq(u, 1, 8) \o <<"-">> \o SubSeq(u, 9, 12) \o <<"-">> \o SubSeq(u, 13, 16)
    \o <<"-">> \o SubSeq(u, 17, 20) \o <<"-">> \o SubSeq(u, 21, 32)

\* s.replace(ch, '')
Remove(s, ch) == SelectSeq(s, LAMBDA x : x # ch)

UpperOf(ch) ==
  CASE ch = "a" -> "A" [] ch = "b" -> "B" [] ch = "c" -> "C"
    [] ch = "d" -> "D" [] ch = "e" -> "E" [] ch = "f" -> "F"
    [] OTHER -> ch

\* s.upper()
Upper(s) == [i \in 1..Len(s) |-> UpperOf(s[i])]

\* str(uuid.uuid4()).replace('-', '').upper()[:24], as characters
NewKey(u) == SubSeq(Upper(Remove(Str(u), "-")), 1, 24)

\* uuid.uuid4(): 32 lower-case hexadecimal digits, the 13th the version 4,
\* the 17th the variant (8, 9, a or b)
Uuid4(digit, variant) ==
  [i \in 1..32 |-> IF i = 13 THEN "4" ELSE IF i = 17 THEN variant ELSE digit]

Palette == <<Uuid4("0", "8"), Uuid4("a", "b"), Uuid4("7", "9")>>

\* a key of the palette as the text written into the manifest
KeyText(key) ==
  CASE key = NewKey(Palette[1]) -> "000000000000400080000000"
    [] key = NewKey(Palette[2]) -> "AAAAAAAAAAAA4AAABAAAAAAA"
    [] key = NewKey(Palette[3]) -> "777777777777477797777777"

\* needle in hay
Contains(hay, needle) ==
  \E i \in 0..(Len(hay) - Len(needle)) : SubSeq(hay, i + 1, i + Len(needle)) = needle

\* the identifier written the way the keys are: no dashes, upper case
RecoveryText_AsKey(u) == Upper(Remove(Str(u), "-"))

\* line 63: the text a newly generated key is looked for in
RecoveryText(u) == Str(u)

\* lines 32-44: the keys of the k-th file, from the draws 2k-1 and 2k
FileKey(draws, k) == NewKey(draws[2 * k - 1])

BuildKey(draws, k) == NewKey(draws[2 * k])

file_refs(draws) == [k \in 1..Len(files_to_add) |-> FileKey(draws, k)]

new_file_refs(draws) ==
  [k \in 1..Len(files_to_add) |->
    FileRef(KeyText(FileKey(draws, k)), basename(files_to_add[k]))]

new_build_refs(draws) ==
  [k \in 1..Len(files_to_add) |->
    BuildFile(KeyText(BuildKey(draws, k)), basename(files_to_add[k]),
              KeyText(FileKey(draws, k)), "plain")]

\* lines 62-65: for the k-th key, next(f for f in files_to_add if key in
\* str(uuid.uuid4())) draws one identifier per candidate until one holds the
\* key, and raises StopIteration when none does; `at` is the next draw
RECURSIVE RecoverLabels(_, _, _, _)
RecoverLabels(draws, k, at, entries) ==
  IF k > Len(files_to_add)
  THEN [raised |-> FALSE, entries |-> entries]
  ELSE
    LET key == file_refs(draws)[k]
        hits == {j \in 1..Len(files_to_add) :
                   Contains(RecoveryText(draws[at + j - 1]), key)}
    IN  IF hits = {}
        THEN [raised |-> TRUE, entries |-> entries]
        ELSE
          LET j == CHOOSE x \in hits : \A y \in hits : x <= y
          IN  RecoverLabels(draws, k + 1, at + j,
                Append(entries, Child(KeyText(key), basename(files_to_add[j]), TRUE)))

\* lines 70-90: the new nodes of one section, before its end marker, when
\* both markers are found
AppendToSection(c, section, nodes) ==
  LET start == Find({i \in DOMAIN c : IsMarker(c[i], "Begin", section)}, 1)
      end == Find({i \in DOMAIN c : IsMarker(c[i], "End", section)}, 1)
  IN  IF start # 0 /\ end # 0 THEN InsertBefore(c, end, nodes) ELSE c

\* the whole call: [result, wrote, content]
add_files_to_xcode_project(d, draws) ==
  IF ~d.exists
  THEN [result |-> "False", wrote |-> FALSE, content |-> d.content]
  ELSE
    LET content == d.content
        database_group_start ==
          Find({i \in DOMAIN content : IsHead(content[i], "Database")}, 1)
        children_start ==
          Find({i \in DOMAIN content : IsTok(content[i], "ChildrenOpen")},
               database_group_start)
        children_end ==
          Find({i \in DOMAIN content : IsTok(content[i], "Close")}, children_start)
        recovered == RecoverLabels(draws, 1, 2 * Len(files_to_add) + 1, <<>>)
    IN  IF database_group_start = 0
        THEN [result |-> "False", wrote |-> FALSE, content |-> content]
        ELSE IF children_start = 0 \/ children_end = 0
        THEN [result |-> "False", wrote |-> FALSE, content |-> content]
        ELSE IF recovered.raised
        THEN [result |-> "raised", wrote |-> FALSE, content |-> content]
        ELSE [result |-> "True", wrote |-> TRUE,
              content |->
                AppendToSection(
                  AppendToSection(
                    InsertBefore(content, children_end, recovered.entries),
                    "PBXFileReference", new_file_refs(draws)),
                  "PBXBuildFile", new_build_refs(draws))]

\* the most identifiers one run draws: two per file, then one per candidate
\* of each key
DrawsPerRun == 2 * Len(files_to_add) + Len(files_to_add) * Len(files_to_add)

\* the identifiers one run draws, in order
DrawSeq(a, b) ==
  [i \in 1..DrawsPerRun |-> Palette[((a + b * (i - 1)) % Len(Palette)) + 1]]

DrawSeqs == {DrawSeq(a, b) : a, b \in 0..(Len(Palette) - 1)}

-----------------------------------------------------------------------------
(* Starting manifests: the canonical layout and its drifts *)

Drifts ==
  {"noFileRefMarkers", "noBuildFileMarkers", "noMainGroup", "noDatabaseGroup",
   "noSourcesPhase", "noScanChild", "noScanSource", "scanLast",
   "noTrailingComma", "settingsShape", "nextKeyTaken"}

DriftSets == {d \in SUBSET Drifts : Cardinality(d) <= MaxDrift}

\* keys of the nodes a starting manifest holds besides the scripts' literals
content_key(d) ==
  IF "nextKeyTaken" \in d THEN "A1B2C3D4E5F6789012345855" ELSE "A1B2C3D4E5F6789012345852"

content_build_key == "A1B2C3D4E5F6789012345851"

a_key == "A1B2C3D4E5F6789012345802"

a_build_key == "A1B2C3D4E5F6789012345801"

b_key == "A1B2C3D4E5F6789012345804"

b_build_key == "A1B2C3D4E5F6789012345803"

database_group_key == "A1B2C3D4E5F6789012345690"

sources_phase_key == "A1B2C3D4E5F6789012345700"

\* every element with its comma; the last one only when `trailing`
Separated(entries, trailing) ==
  [i \in 1..Len(entries) |->
    [entries[i] EXCEPT !.comma = (i < Len(entries) \/ trailing)]]

Section(name, d, drift, nodes) ==
  IF drift \in d THEN nodes ELSE <<Begin(name)>> \o nodes \o <<End(name)>>

Manifest(d) ==
  LET trailing == "noTrailingComma" \notin d
      scanChild == IF "noScanChild" \in d THEN <<>>
                   ELSE <<Child(scanview_key, scanview_name, TRUE)>>
      scanSource == IF "noScanSource" \in d THEN <<>>
                    ELSE <<Source(scanview_source_key, scanview_name, TRUE)>>
      otherChild == <<Child(content_key(d), "ContentView.swift", TRUE)>>
      otherSources == <<Source(content_build_key, "ContentView.swift", TRUE),
                        Source(a_build_key, "A.swift", TRUE),
                        Source(b_build_key, "B.swift", TRUE)>>
      mainChildren == IF "scanLast" \in d THEN otherChild \o scanChild
                      ELSE scanChild \o otherChild
      sources == IF "scanLast" \in d THEN otherSources \o scanSource
                 ELSE scanSource \o otherSources
      buildFiles ==
        Section("PBXBuildFile", d, "noBuildFileMarkers",
          <<BuildFile(content_build_key, "ContentView.swift", content_key(d), "plain"),
            BuildFile(scanview_source_key, scanview_name, scanview_key, "plain"),
            BuildFile(a_build_key, "A.swift", a_key,
                      IF "settingsShape" \in d THEN "settings" ELSE "plain"),
            BuildFile(b_build_key, "B.swift", b_key, "plain")>>)
      fileRefs ==
        Section("PBXFileReference", d, "noFileRefMarkers",
          <<FileRef(content_key(d), "ContentView.swift"),
            FileRef(scanview_key, scanview_name),
            FileRef(a_key, "A.swift"),
            FileRef(b_key, "B.swift")>>)
      mainGroup ==
        IF "noMainGroup" \in d THEN <<>>
        ELSE <<Group(main_group_key, main_group_name), ChildrenOpen>>
             \o Separated(mainChildren, trailing) \o <<Close, EndObj>>
      databaseGroup ==
        IF "noDatabaseGroup" \in d THEN <<>>
        ELSE <<Group(database_group_key, "Database"), ChildrenOpen>>
             \o Separated(<<Child(a_key, "A.swift", TRUE),
                            Child(b_key, "B.swift", TRUE)>>, trailing)
             \o <<Close, EndObj>>
      sourcesPhase ==
        IF "noSourcesPhase" \in d THEN <<>>
        ELSE <<Phase(sources_phase_key, "Sources"), FilesOpen>>
             \o Separated(sources, trailing) \o <<Close, EndObj>>
  IN  buildFiles \o fileRefs \o mainGroup \o databaseGroup \o sourcesPhase

\* the lists of files to remove fix_xcode_project is run with
RemoveLists ==
  {<<>>, <<file_name>>, <<"A.swift">>, <<"A.swift", file_name>>, <<scanview_name>>}

-----------------------------------------------------------------------------
(* The runs: disk is the manifest file, last and prev the records of the    *)
(* last run and the one before it, runs the number of runs so far, and     *)
(* completed whether every run so far reached its write of the manifest    *)

Init ==
  /\ disk \in {NoFile} \cup {File(Manifest(d)) : d \in DriftSets}
  /\ last = NoRun
  /\ prev = NoRun
  /\ runs = 0
  /\ completed = TRUE

Finish(op, files, r) ==
  /\ disk' = IF r.wrote THEN File(r.content) ELSE disk
  /\ prev' = last
  /\ last' = Run(op, files, r.result, r.wrote, disk)
  /\ runs' = runs + 1
  /\ completed' = (completed /\ r.wrote)

RunAddHistoryView ==
  /\ runs < MaxRuns
  /\ Finish("add_history_view", <<file_name>>, add_history_view_to_xcode(disk))

RunFixXcodeProject ==
  /\ runs < MaxRuns
  /\ \E files \in RemoveLists :
       Finish("fix_xcode_project", files, fix_xcode_project(disk, files))

RunAddFilesToXcode ==
  /\ runs < MaxRuns
  /\ \E draws \in DrawSeqs :
       Finish("add_files_to_xcode", <<>>, add_files_to_xcode_project(disk, draws))

Next ==
  \/ RunAddHistoryView
  \/ RunFixXcodeProject
  \/ RunAddFilesToXcode

Spec == Init /\ [][Next]_vars

-----------------------------------------------------------------------------
(* The object graph a manifest text holds *)

Indices(c, t) == {i \in 1..Len(c) : c[i].t = t}

FileRefKeys(c) == {c[i].key : i \in Indices(c, "FileRef")}

BuildFileKeys(c) == {c[i].key : i \in Indices(c, "BuildFile")}

Count(c, t, name) == Cardinality({i \in Indices(c, t) : c[i].name = name})

Present(c, name) ==
  \E i \in 1..Len(c) :
    c[i].t \in {"FileRef", "BuildFile", "Child", "Source"} /\ c[i].name = name

\* every reference resolves to a node of the expected kind
NoDangling(c) ==
  /\ \A i \in Indices(c, "Child") : c[i].key \in FileRefKeys(c)
  /\ \A i \in Indices(c, "Source") : c[i].key \in BuildFileKeys(c)
  /\ \A i \in Indices(c, "BuildFile") : c[i].ref \in FileRefKeys(c)

\* no list holds the same reference twice
NoDuplicateEntries(c) ==
  \A i, j \in 1..Len(c) :
    (i < j /\ c[i].t \in {"Child", "Source"} /\ c[j].t = c[i].t /\ c[j].key = c[i].key)
      => \E k \in i..j : c[k].t = "Close"

\* no two nodes share a key
KeysUnique(c) ==
  \A i, j \in 1..Len(c) :
    (i < j /\ c[i].t \in {"FileRef", "BuildFile", "Group", "Phase"}
           /\ c[j].t \in {"FileRef", "BuildFile", "Group", "Phase"}
           /\ c[i].key # NoKey)
      => c[i].key # c[j].key

NodeKeys(c) ==
  {c[i].key : i \in {j \in 1..Len(c) : c[j].t \in {"FileRef", "BuildFile", "Group", "Phase"}}}

\* the units of a manifest without key values and separators
Structure(c) ==
  [i \in 1..Len(c) |->
    [t |-> c[i].t, name |-> c[i].name, shape |-> c[i].shape, bound |-> c[i].ref # NoKey]]

\* the units of a manifest without separators
Unseparated(c) == [i \in 1..Len(c) |-> [c[i] EXCEPT !.comma = FALSE]]

\* the elements of the list opened by the first `open` unit at or after `head`
ListAt(c, head, open) ==
  LET o == Find({i \in DOMAIN c : IsTok(c[i], open)}, head)
      e == Find({i \in DOMAIN c : IsTok(c[i], "Close")}, o)
  IN  IF head = 0 \/ o = 0 \/ e = 0 THEN <<>> ELSE SubSeq(c, o + 1, e - 1)

MainGroupChildren(c) ==
  ListAt(c, Find({i \in DOMAIN c : IsKeyedHead(c[i], main_group_key, main_group_name)}, 1),
         "ChildrenOpen")

SourcesFiles(c) ==
  ListAt(c, Find({i \in DOMAIN c : c[i].t = "Phase" /\ c[i].name = "Sources"}, 1),
         "FilesOpen")

RECURSIVE IsSubsequence(_, _)
IsSubsequence(a, b) ==
  IF a = <<>> THEN TRUE
  ELSE IF b = <<>> THEN FALSE
  ELSE IF Head(a) = Head(b) THEN IsSubsequence(Tail(a), Tail(b))
  ELSE IsSubsequence(a, Tail(b))

\* no final element of a list is followed by a separator
NoTrailingComma(c) ==
  \A i \in 1..(Len(c) - 1) : c[i + 1].t = "Close" => ~c[i].comma

AddOps == {"add_history_view", "add_files_to_xcode"}

-----------------------------------------------------------------------------
(* The claims *)

\* C1: after any sequence of add-file and remove-file runs that each reach
\* the write of the manifest, every children entry is the key of a
\* file-reference node, every files entry the key of a build-file node, and
\* every build-file node's fileRef the key of a file-reference node.
C1_NoDanglingReferences ==
  (runs >= 1 /\ completed) => NoDangling(disk.content)

\* the four edits of one add of file_name, against the manifest before it
AllFourEdits(before, after) ==
  /\ Count(after, "FileRef", file_name) = Count(before, "FileRef", file_name) + 1
  /\ Count(after, "BuildFile", file_name) = Count(before, "BuildFile", file_name) + 1
  /\ Count(after, "Child", file_name) = Count(before, "Child", file_name) + 1
  /\ Count(after, "Source", file_name) = Count(before, "Source", file_name) + 1

\* C2: an add run either performs all four edits and writes a manifest that
\* satisfies the graph invariants, or fails and leaves the manifest on disk
\* as it was.
C2_AllOrNothing ==
  last.op \in AddOps =>
    IF last.wrote
    THEN /\ AllFourEdits(last.before.content, disk.content)
         /\ NoDangling(disk.content)
         /\ NoDuplicateEntries(disk.content)
    ELSE disk = last.before

\* a manifest without every node and list entry labelled f
WithoutFile(c, f) ==
  SelectSeq(c, LAMBDA tok :
    ~(tok.t \in {"FileRef", "BuildFile", "Child", "Source"} /\ tok.name = f))

\* C3: removing one file removes its file-reference node, its build-file node
\* and every children and files entry of it, and leaves every other node and
\* entry in place and in order.
C3_RemoveFileRemovesExactly ==
  (last.op = "fix_xcode_project" /\ last.wrote /\ Len(last.files) = 1) =>
    Unseparated(disk.content)
      = Unseparated(WithoutFile(last.before.content, last.files[1]))

\* C4: a successful add creates exactly one file-reference node and one
\* build-file node whose fileRef is that node's key, appends the file
\* reference to the target group's children and the build file to the
\* Sources phase's files, and leaves every unit that was there unchanged.
C4_AddCreatesExactly ==
  (last.op = "add_history_view" /\ last.result = "True") =>
    LET before == last.before.content
        after == disk.content
    IN  /\ Count(after, "FileRef", file_name) = Count(before, "FileRef", file_name) + 1
        /\ Count(after, "BuildFile", file_name)
             = Count(before, "BuildFile", file_name) + 1
        /\ \E i \in Indices(after, "FileRef"), j \in Indices(after, "BuildFile") :
             /\ after[i].name = file_name /\ after[j].name = file_name
             /\ after[j].ref = after[i].key
             /\ Unseparated(MainGroupChildren(after))
                  = Unseparated(MainGroupChildren(before)
                                  \o <<Child(after[i].key, file_name, FALSE)>>)
             /\ Unseparated(SourcesFiles(after))
                  = Unseparated(SourcesFiles(before)
                                  \o <<Source(after[j].key, file_name, FALSE)>>)
        /\ Len(after) = Len(before) + 4
        /\ IsSubsequence(before, after)

\* C5: an add of a label the target group already holds fails and leaves the
\* manifest as it was; so there is at most one file-reference node and one
\* build-file node of the added label, and no list holds a reference twice.
C5_DuplicateDetection ==
  /\ (last.op = "add_history_view"
        /\ \E i \in 1..Len(MainGroupChildren(last.before.content)) :
             MainGroupChildren(last.before.content)[i].name = file_name)
       => (last.result # "True" /\ disk = last.before)
  /\ Count(disk.content, "FileRef", file_name) <= 1
  /\ Count(disk.content, "BuildFile", file_name) <= 1
  /\ NoDuplicateEntries(disk.content)

\* C6: the keys an add gives its two new nodes are distinct and are not keys
\* of the manifest before the add, so node keys stay unique.
C6_KeyFreshness ==
  (last.op = "add_history_view" /\ last.wrote) =>
    /\ file_uuid # build_uuid
    /\ file_uuid \notin NodeKeys(last.before.content)
    /\ build_uuid \notin NodeKeys(last.before.content)
    /\ (KeysUnique(last.before.content) => KeysUnique(disk.content))

\* C7: a run with an empty list of files to remove writes back the manifest
\* it read.
C7_RoundTripIdentity ==
  (last.op = "fix_xcode_project" /\ last.files = <<>> /\ last.wrote) =>
    disk = last.before

AddThenRemove ==
  /\ prev.op = "add_history_view"
  /\ prev.before.exists
  /\ ~Present(prev.before.content, file_name)
  /\ last.op = "fix_xcode_project"
  /\ last.files = <<file_name>>

\* C8: adding a file that is not in the manifest and then removing it yields
\* the manifest before the add, up to key values: the same nodes and the same
\* list entries in the same order.
C8_AddRemoveInverse ==
  AddThenRemove => Structure(disk.content) = Structure(prev.before.content)

\* C8 witness: the add made all four edits and the removal followed it.
C8_Witness ==
  /\ AddThenRemove
  /\ prev.wrote
  /\ AllFourEdits(prev.before.content, last.before.content)
  /\ last.wrote

\* C9 as claimed: every manifest written, by a remove run or by an add run,
\* has no list whose final element is followed by a separator.
C9_NoTrailingCommaAfterAnyRun ==
  last.wrote => NoTrailingComma(disk.content)

\* C9 as amended: a manifest written by a remove run has no list whose final
\* element is followed by a separator, and the cleanup changed nothing but
\* the separators of final elements.
C9_NoTrailingCommaAfterRemove ==
  (last.op = "fix_xcode_project" /\ last.wrote) =>
    LET removed == RemoveAll(last.before.content, last.files)
        after == disk.content
    IN  /\ NoTrailingComma(after)
        /\ Len(after) = Len(removed)
        /\ \A i \in 1..Len(removed) :
             \/ after[i] = removed[i]
             \/ /\ i < Len(removed)
                /\ removed[i + 1].t = "Close"
                /\ removed[i].comma
                /\ after[i] = [removed[i] EXCEPT !.comma = FALSE]

\* C9 witness: a removal took the final element of a list whose other
\* elements end with a separator, and the written manifest has none there.
C9_Witness ==
  /\ last.op = "fix_xcode_project"
  /\ last.wrote
  /\ last.files # <<>>
  /\ NoTrailingComma(last.before.content)
  /\ ~NoTrailingComma(RemoveAll(last.before.content, last.files))
  /\ NoTrailingComma(disk.content)

HasDatabaseChildren(d) ==
  LET g == Find({i \in DOMAIN d.content : IsHead(d.content[i], "Database")}, 1)
      o == Find({i \in DOMAIN d.content : IsTok(d.content[i], "ChildrenOpen")}, g)
      e == Find({i \in DOMAIN d.content : IsTok(d.content[i], "Close")}, o)
  IN  d.exists /\ g # 0 /\ o # 0 /\ e # 0

\* C10: a run of add_files_to_xcode_project never reaches its write and never
\* returns success: the manifest on disk is left as it was, and when the
\* Database group and a children list are found the run aborts in the
\* label-recovery step.
C10_AddFilesNeverWrites ==
  last.op = "add_files_to_xcode" =>
    /\ ~last.wrote
    /\ last.result # "True"
    /\ disk = last.before
    /\ HasDatabaseChildren(last.before) => last.result = "raised"

\* C10 witness: the group and its children list were found and the run
\* aborted in the label-recovery step.
C10_Witness ==
  /\ last.op = "add_files_to_xcode"
  /\ HasDatabaseChildren(last.before)
  /\ last.result = "raised"
  /\ disk = last.before

====
